---- MODULE Spec2Model ----
\* A model of node-mysql-db: the promise wrappers around a mysql connection
\* pool (query, unbufferedQuery, streamingQuery, loadSchema) and the Model
\* base class that loads its field map from the schema.
EXTENDS Integers, Sequences, FiniteSets, TLC

\* -------------------------------------------------------------------- bounds
\* Largest result set a streamed query returns.
MaxRows == 2
\* Entity operations (save, update, DeleteById) made in a run.
MaxOps == 2
\* Connections the pool holds.
NConns == 2
\* highWaterMark handed to query.stream(): rows the readable side buffers.
BufferSize == 2

\* ------------------------------------------------------------ gateway: state
\* One call of each entry point is in flight at a time; the three share the pool.
Calls == {"q", "u", "s"}
Conns == 1..NConns
NoConn == 0

VARIABLES
  pool,      \* the connections free in the pool
  pc,        \* per call: "idle", "acquiring", "open" (query dispatched), "closed"
  conn,      \* per call: the connection pool.getConnection handed to it
  released,  \* per call: how often connection.release() ran
  outcome,   \* per call: the promise: "pending", "resolved", "rejected"
  reason,    \* per call: the error a rejected promise carries ("" otherwise)
  src,       \* per streamed call: the row source: "none", "rows", "error", "end"
  nrows,     \* per streamed call: size of the result set
  emitted,   \* per streamed call: 'result' events emitted so far
  paused,    \* unbufferedQuery: connection.pause() is in force
  cb,        \* unbufferedQuery: promise of the running callback:
             \*   "none", "running", "fulfilled", "rejected"
  buffered,  \* streamingQuery: rows waiting in the readable stream
  written,   \* streamingQuery: rows the piped sink has taken
  log        \* per call: what happened, in order, as <<event, row>> pairs

gvars == <<pool, pc, conn, released, outcome, reason, src, nrows, emitted,
           paused, cb, buffered, written, log>>

\* ------------------------------------------------------------- entities: state
\* The classes that extend Model, one instance of each.
Entities == {"User", "Post"}

VARIABLES
  constructed,     \* the entities whose constructor has run
  fields,          \* per entity: this.fields
  load,            \* per entity: the promise this.db.loadSchema() returned
  catalogQueries,  \* metadata queries issued so far
  seen,            \* per entity: every this.fields an operation has read
  report           \* per entity: what its last validate() returned

svars == <<constructed, fields, load, catalogQueries, seen, report>>

\* ------------------------------------------------- validate on its own: state
VARIABLES
  vfs,   \* the field map validate() runs against
  varg,  \* the argument of the last validate() call
  vout   \* what that call returned

\* ------------------------------------------------------------- pairs: state
VARIABLES
  qrows,    \* the result set the statement of pairs() yields
  pairsOut  \* the promise pairs() returned

\* ------------------------------------------------- entity operations: state
VARIABLES
  tbl,     \* the rows of the entity's table, by id
  lastId,  \* the table's auto-increment counter
  op,      \* the save / update / DeleteById call whose query is under way
  done     \* the calls that have settled, in order, with what they did

cvars == <<tbl, lastId, op, done>>

evars == <<vfs, varg, vout, qrows, pairsOut, tbl, lastId, op, done>>

vars == <<pool, pc, conn, released, outcome, reason, src, nrows, emitted,
          paused, cb, buffered, written, log,
          constructed, fields, load, catalogQueries, seen, report,
          vfs, varg, vout, qrows, pairsOut, tbl, lastId, op, done>>

\* ---------------------------------------------------------- gateway: helpers
\* Mutant of Settled: the last resolve()/reject() decides.
SettledLastWins(o, r, how, why) == <<how, why>>

\* A promise settles once: resolve()/reject() on a settled promise do nothing.
Settled(o, r, how, why) ==
  IF o = "pending" THEN <<how, why>> ELSE <<o, r>>

\* resolve()/reject(err) of call c's promise.
Settle(c, how, why) ==
  /\ outcome' = [outcome EXCEPT ![c] = Settled(outcome[c], reason[c], how, why)[1]]
  /\ reason'  = [reason  EXCEPT ![c] = Settled(outcome[c], reason[c], how, why)[2]]

\* connection.release(): the call's connection goes back to the pool.
Release(c) ==
  /\ pool' = pool \cup {conn[c]}
  /\ released' = [released EXCEPT ![c] = @ + 1]

Note(c, evs) == log' = [log EXCEPT ![c] = @ \o evs]

\* The errors a row source signals: from the query or from the connection.
SourceErrors == {"QueryError", "ConnectionError"}

\* `.then(connection.resume)` hands the method over without its receiver, so
\* resume runs with no `this`: whether it still resumes the connection or
\* throws a TypeError is up to the driver.
DetachedResume == {"resumed", "throws"}

\* ---------------------------------------------------------- gateway: actions
\* The application calls query / unbufferedQuery / streamingQuery.
Call(c) ==
  /\ pc[c] = "idle"
  /\ pc' = [pc EXCEPT ![c] = "acquiring"]
  /\ Note(c, << <<"call", 0>> >>)
  /\ UNCHANGED <<pool, conn, released, outcome, reason, src, nrows, emitted,
                 paused, cb, buffered, written>>
  /\ UNCHANGED svars
  /\ UNCHANGED evars

\* pool.getConnection calls back with an error: reject and return.
GetConnectionError(c) ==
  /\ pc[c] = "acquiring"
  /\ pc' = [pc EXCEPT ![c] = "closed"]
  /\ Settle(c, "rejected", "AcquireError")
  /\ Note(c, << <<"reject", 0>> >>)
  /\ UNCHANGED <<pool, conn, released, src, nrows, emitted, paused, cb,
                 buffered, written>>
  /\ UNCHANGED svars
  /\ UNCHANGED evars

\* The connection the pool hands out. Connections are interchangeable, so
\* the free one with the least number stands for any of them.
FirstFree(free) == CHOOSE k \in free : \A j \in free : k <= j

\* pool.getConnection calls back with a connection; the query is dispatched.
\* With no free connection the request waits in the pool's queue.
GetConnection(c) ==
  /\ pc[c] = "acquiring"
  /\ pool # {}
  /\ pool' = pool \ {FirstFree(pool)}
  /\ conn' = [conn EXCEPT ![c] = FirstFree(pool)]
  /\ pc' = [pc EXCEPT ![c] = "open"]
  /\ IF c = "q"
       THEN UNCHANGED <<src, nrows>>
       ELSE /\ src' = [src EXCEPT ![c] = "rows"]
            /\ \E n \in 0..MaxRows : nrows' = [nrows EXCEPT ![c] = n]
  /\ Note(c, << <<"acquire", 0>> >>)
  /\ UNCHANGED <<released, outcome, reason, emitted, paused, cb, buffered, written>>
  /\ UNCHANGED svars
  /\ UNCHANGED evars

\* Mutant of QueryCallback: release() moved below the early return, so a
\* failed query keeps its connection.
QueryCallbackLeak(c, err) ==
  /\ c = "q"
  /\ pc[c] = "open"
  /\ pc' = [pc EXCEPT ![c] = "closed"]
  /\ IF err # ""
       THEN /\ Settle(c, "rejected", err)
            /\ Note(c, << <<"reject", 0>> >>)
            /\ UNCHANGED <<pool, released>>
       ELSE /\ Release(c)
            /\ Settle(c, "resolved", "")
            /\ Note(c, << <<"release", 0>>, <<"resolve", 0>> >>)
  /\ UNCHANGED <<conn, src, nrows, emitted, paused, cb, buffered, written>>
  /\ UNCHANGED svars
  /\ UNCHANGED evars

\* query(): the callback of connection.query releases, then settles.
QueryCallback(c, err) ==
  /\ c = "q"
  /\ pc[c] = "open"
  /\ pc' = [pc EXCEPT ![c] = "closed"]
  /\ Release(c)
  /\ IF err # ""
       THEN /\ Settle(c, "rejected", err)
            /\ Note(c, << <<"release", 0>>, <<"reject", 0>> >>)
       ELSE /\ Settle(c, "resolved", "")
            /\ Note(c, << <<"release", 0>>, <<"resolve", 0>> >>)
  /\ UNCHANGED <<conn, src, nrows, emitted, paused, cb, buffered, written>>
  /\ UNCHANGED svars
  /\ UNCHANGED evars

\* Mutant of OnResult: the row is handed over without connection.pause().
OnResultNoPause(c) ==
  /\ c = "u"
  /\ pc[c] = "open"
  /\ src[c] = "rows"
  /\ ~paused
  /\ emitted[c] < nrows[c]
  /\ emitted' = [emitted EXCEPT ![c] = @ + 1]
  /\ cb' = "running"
  /\ Note(c, << <<"result", emitted[c] + 1>> >>)
  /\ UNCHANGED <<pool, pc, conn, released, outcome, reason, src, nrows,
                 paused, buffered, written>>
  /\ UNCHANGED svars
  /\ UNCHANGED evars

\* unbufferedQuery: on('result'): pause the connection, hand the row over.
OnResult(c) ==
  /\ c = "u"
  /\ pc[c] = "open"
  /\ src[c] = "rows"
  /\ ~paused
  /\ emitted[c] < nrows[c]
  /\ emitted' = [emitted EXCEPT ![c] = @ + 1]
  /\ paused' = TRUE
  /\ cb' = "running"
  /\ Note(c, << <<"result", emitted[c] + 1>> >>)
  /\ UNCHANGED <<pool, pc, conn, released, outcome, reason, src, nrows,
                 buffered, written>>
  /\ UNCHANGED svars
  /\ UNCHANGED evars

\* The consumer's promise for the row it holds settles.
ConsumerSettles(c, how) ==
  /\ c = "u"
  /\ cb = "running"
  /\ cb' = how
  /\ Note(c, << <<how, emitted[c]>> >>)
  /\ UNCHANGED <<pool, pc, conn, released, outcome, reason, src, nrows, emitted,
                 paused, buffered, written>>
  /\ UNCHANGED svars
  /\ UNCHANGED evars

\* unbufferedQuery: .then(connection.resume), and .catch(reject) when it throws.
OnCallbackFulfilled(c) ==
  /\ c = "u"
  /\ cb = "fulfilled"
  /\ cb' = "none"
  /\ \E o \in DetachedResume :
       IF o = "resumed"
         THEN /\ paused' = FALSE
              /\ Note(c, << <<"resume", emitted[c]>> >>)
              /\ UNCHANGED <<outcome, reason>>
         ELSE /\ Settle(c, "rejected", "TypeError")
              /\ Note(c, << <<"reject", emitted[c]>> >>)
              /\ UNCHANGED paused
  /\ UNCHANGED <<pool, pc, conn, released, src, nrows, emitted, buffered, written>>
  /\ UNCHANGED svars
  /\ UNCHANGED evars

\* unbufferedQuery: .catch(err => reject(err)) for a callback that rejected.
OnCallbackRejected(c) ==
  /\ c = "u"
  /\ cb = "rejected"
  /\ cb' = "none"
  /\ Settle(c, "rejected", "ConsumerError")
  /\ Note(c, << <<"reject", emitted[c]>> >>)
  /\ UNCHANGED <<pool, pc, conn, released, src, nrows, emitted, paused,
                 buffered, written>>
  /\ UNCHANGED svars
  /\ UNCHANGED evars

\* Mutant of OnError: the handler drops the error instead of rejecting.
OnErrorDropped(c, err) ==
  /\ c = "u"
  /\ pc[c] = "open"
  /\ src[c] = "rows"
  /\ ~paused
  /\ src' = [src EXCEPT ![c] = "error"]
  /\ Note(c, << <<err, emitted[c]>> >>)
  /\ UNCHANGED <<pool, pc, conn, released, outcome, reason, nrows, emitted,
                 paused, cb, buffered, written>>
  /\ UNCHANGED svars
  /\ UNCHANGED evars

\* unbufferedQuery: on('error'): reject; the source emits 'end' afterwards.
OnError(c, err) ==
  /\ c = "u"
  /\ pc[c] = "open"
  /\ src[c] = "rows"
  /\ ~paused
  /\ src' = [src EXCEPT ![c] = "error"]
  /\ Settle(c, "rejected", err)
  /\ Note(c, << <<err, emitted[c]>>, <<"reject", emitted[c]>> >>)
  /\ UNCHANGED <<pool, pc, conn, released, nrows, emitted, paused, cb,
                 buffered, written>>
  /\ UNCHANGED svars
  /\ UNCHANGED evars

\* unbufferedQuery: on('end'): release the connection and resolve.
OnEnd(c) ==
  /\ c = "u"
  /\ pc[c] = "open"
  /\ ~paused
  /\ \/ src[c] = "error"
     \/ src[c] = "rows" /\ emitted[c] = nrows[c]
  /\ src' = [src EXCEPT ![c] = "end"]
  /\ pc' = [pc EXCEPT ![c] = "closed"]
  /\ Release(c)
  /\ Settle(c, "resolved", "")
  /\ Note(c, << <<"end", emitted[c]>>, <<"release", 0>>, <<"resolve", 0>> >>)
  /\ UNCHANGED <<conn, nrows, emitted, paused, cb, buffered, written>>
  /\ UNCHANGED svars
  /\ UNCHANGED evars

\* streamingQuery: the source pushes a row into the readable stream; a full
\* buffer holds the source back.
StreamRow(c) ==
  /\ c = "s"
  /\ pc[c] = "open"
  /\ src[c] = "rows"
  /\ emitted[c] < nrows[c]
  /\ buffered < BufferSize
  /\ emitted' = [emitted EXCEPT ![c] = @ + 1]
  /\ buffered' = buffered + 1
  /\ UNCHANGED <<pool, pc, conn, released, outcome, reason, src, nrows,
                 paused, cb, written, log>>
  /\ UNCHANGED svars
  /\ UNCHANGED evars

\* streamingQuery: pipe() moves the oldest buffered row into the sink.
SinkWrite(c) ==
  /\ c = "s"
  /\ pc[c] = "open"
  /\ buffered > 0
  /\ buffered' = buffered - 1
  /\ written' = written + 1
  /\ UNCHANGED <<pool, pc, conn, released, outcome, reason, src, nrows, emitted,
                 paused, cb, log>>
  /\ UNCHANGED svars
  /\ UNCHANGED evars

\* streamingQuery: on('error'): reject; the source emits 'end' afterwards.
StreamError(c, err) ==
  /\ c = "s"
  /\ pc[c] = "open"
  /\ src[c] = "rows"
  /\ buffered < BufferSize
  /\ src' = [src EXCEPT ![c] = "error"]
  /\ Settle(c, "rejected", err)
  /\ Note(c, << <<err, emitted[c]>>, <<"reject", emitted[c]>> >>)
  /\ UNCHANGED <<pool, pc, conn, released, nrows, emitted, paused, cb,
                 buffered, written>>
  /\ UNCHANGED svars
  /\ UNCHANGED evars

\* streamingQuery: the source ends, which ends the readable stream.
StreamEnd(c) ==
  /\ c = "s"
  /\ pc[c] = "open"
  /\ buffered < BufferSize
  /\ \/ src[c] = "error"
     \/ src[c] = "rows" /\ emitted[c] = nrows[c]
  /\ src' = [src EXCEPT ![c] = "end"]
  /\ Note(c, << <<"end", emitted[c]>> >>)
  /\ UNCHANGED <<pool, pc, conn, released, outcome, reason, nrows, emitted,
                 paused, cb, buffered, written>>
  /\ UNCHANGED svars
  /\ UNCHANGED evars

\* Mutant of OnFinish: the handler hangs on the source's 'end' instead of the
\* sink's 'finish', so it runs while rows may still be buffered.
OnFinishAtEnd(c) ==
  /\ c = "s"
  /\ pc[c] = "open"
  /\ src[c] = "end"
  /\ pc' = [pc EXCEPT ![c] = "closed"]
  /\ Release(c)
  /\ Settle(c, "resolved", "")
  /\ Note(c, << <<"finish", written>>, <<"release", 0>>, <<"resolve", 0>> >>)
  /\ UNCHANGED <<conn, src, nrows, emitted, paused, cb, buffered, written>>
  /\ UNCHANGED svars
  /\ UNCHANGED evars

\* streamingQuery: the sink has taken everything and emits 'finish':
\* release the connection and resolve.
OnFinish(c) ==
  /\ c = "s"
  /\ pc[c] = "open"
  /\ src[c] = "end"
  /\ buffered = 0
  /\ pc' = [pc EXCEPT ![c] = "closed"]
  /\ Release(c)
  /\ Settle(c, "resolved", "")
  /\ Note(c, << <<"finish", written>>, <<"release", 0>>, <<"resolve", 0>> >>)
  /\ UNCHANGED <<conn, src, nrows, emitted, paused, cb, buffered, written>>
  /\ UNCHANGED svars
  /\ UNCHANGED evars

\* ------------------------------------------------------------ gateway: init
GatewayInit ==
  /\ pool = Conns
  /\ pc = [c \in Calls |-> "idle"]
  /\ conn = [c \in Calls |-> NoConn]
  /\ released = [c \in Calls |-> 0]
  /\ outcome = [c \in Calls |-> "pending"]
  /\ reason = [c \in Calls |-> ""]
  /\ src = [c \in {"u", "s"} |-> "none"]
  /\ nrows = [c \in {"u", "s"} |-> 0]
  /\ emitted = [c \in {"u", "s"} |-> 0]
  /\ paused = FALSE
  /\ cb = "none"
  /\ buffered = 0
  /\ written = 0
  /\ log = [c \in Calls |-> << >>]

\* ---------------------------------------------------------- schema: helpers
\* snakeCase(this.constructor.name) for the classes at hand.
TableOf(e) == IF e = "User" THEN "user" ELSE "post"

\* A column's CHARACTER_MAXIMUM_LENGTH when MySQL reports null.
NoLength == -1

\* The rows of INFORMATION_SCHEMA.columns for the current database, ordered
\* by table name and ordinal position.
Catalog == <<
  [TABLE_NAME |-> "post", COLUMN_NAME |-> "id", DATA_TYPE |-> "int",
   IS_NULLABLE |-> "NO", CHARACTER_MAXIMUM_LENGTH |-> NoLength, COLUMN_KEY |-> "PRI"],
  [TABLE_NAME |-> "post", COLUMN_NAME |-> "title", DATA_TYPE |-> "text",
   IS_NULLABLE |-> "YES", CHARACTER_MAXIMUM_LENGTH |-> 2, COLUMN_KEY |-> ""],
  [TABLE_NAME |-> "user", COLUMN_NAME |-> "id", DATA_TYPE |-> "int",
   IS_NULLABLE |-> "NO", CHARACTER_MAXIMUM_LENGTH |-> NoLength, COLUMN_KEY |-> "PRI"],
  [TABLE_NAME |-> "user", COLUMN_NAME |-> "name", DATA_TYPE |-> "varchar",
   IS_NULLABLE |-> "YES", CHARACTER_MAXIMUM_LENGTH |-> 2, COLUMN_KEY |-> ""],
  [TABLE_NAME |-> "user", COLUMN_NAME |-> "active", DATA_TYPE |-> "tinyint",
   IS_NULLABLE |-> "NO", CHARACTER_MAXIMUM_LENGTH |-> 3, COLUMN_KEY |-> ""],
  [TABLE_NAME |-> "user", COLUMN_NAME |-> "created_at", DATA_TYPE |-> "datetime",
   IS_NULLABLE |-> "YES", CHARACTER_MAXIMUM_LENGTH |-> NoLength, COLUMN_KEY |-> ""],
  [TABLE_NAME |-> "user", COLUMN_NAME |-> "updated_at", DATA_TYPE |-> "datetime",
   IS_NULLABLE |-> "YES", CHARACTER_MAXIMUM_LENGTH |-> NoLength, COLUMN_KEY |-> ""] >>

\* {}: the object with no properties.
EmptyMap == [x \in {} |-> 0]

\* mapDataType: the JavaScript type a column type is checked against.
NumberTypes == {"int", "tinyint", "smallint", "mediumint", "bigint", "bit",
                "double", "float", "decimal", "numeric"}
mapDataType(type) ==
  IF type \in NumberTypes THEN "number"
  ELSE IF type = "boolean" THEN "boolean"
  ELSE "string"

\* loadSchema: the `tables` object its then-callback builds from the rows:
\* tables[TABLE_NAME][COLUMN_NAME] = row (a later row of the same column wins).
TablesOf(rows) ==
  LET idx == 1..Len(rows)
      names == {rows[i].TABLE_NAME : i \in idx}
      cols(t) == {rows[i].COLUMN_NAME : i \in {j \in idx : rows[j].TABLE_NAME = t}}
      last(t, c) == CHOOSE i \in idx :
                      /\ rows[i].TABLE_NAME = t /\ rows[i].COLUMN_NAME = c
                      /\ \A j \in idx : rows[j].TABLE_NAME = t /\ rows[j].COLUMN_NAME = c
                                          => j <= i
  IN [t \in names |-> [c \in cols(t) |-> rows[last(t, c)]]]

\* loadSchema's then-callback: it builds `tables` and then calls
\* resolve(tables). loadSchema creates no promise of its own and nothing named
\* `resolve` is in scope, so the call throws a ReferenceError and the promise
\* loadSchema returned rejects with it, whatever the rows are.
LoadSchemaThen(rows) ==
  [status |-> "rejected", reason |-> "ReferenceError", value |-> EmptyMap]

\* loadSchema: query(pool, sql).then(...): a failed query skips the callback
\* and rejects the promise with the query's error.
LoadSchema(err, rows) ==
  IF err # ""
    THEN [status |-> "rejected", reason |-> err, value |-> EmptyMap]
    ELSE LoadSchemaThen(rows)

\* Model's constructor callback, run with what loadSchema resolved with:
\* fields[this.table] is a plain object (or undefined), which has no forEach,
\* so the call throws a TypeError before this.fields is assigned.
ModelThen(value, table, old) == old

\* loadSchema: the descriptor (`field`) its callback computes for a row.
FieldOf(row) ==
  [type |-> row.DATA_TYPE,
   nullable |-> (row.IS_NULLABLE = "YES"),
   length |-> row.CHARACTER_MAXIMUM_LENGTH,
   index |-> (row.COLUMN_KEY # ""),
   primary |-> (row.COLUMN_KEY = "PRI"),
   unique |-> (row.COLUMN_KEY = "UNI")]

\* Mutant of FieldsAfterLoad: this.fields is filled from the rows as they
\* come, whatever the promise does, and is seen with one raw row in it.
FieldsAfterLoadEager(p, table, old) ==
  [c \in {"id"} |-> TablesOf(Catalog)[table][c]]

\* Mutant of FieldsAfterLoad: a failed load installs the map a previous
\* load left behind.
FieldsAfterLoadStale(p, table, old) ==
  IF p.status = "rejected" /\ p.reason \in {"AcquireError", "QueryError"}
    THEN [c \in DOMAIN TablesOf(Catalog)[table] |-> FieldOf(TablesOf(Catalog)[table][c])]
    ELSE old

\* Model's constructor: this.db.loadSchema().then(callback), with no handler
\* for a rejection: this.fields once the promise p has settled.
FieldsAfterLoad(p, table, old) ==
  IF p.status = "fulfilled" THEN ModelThen(p.value, table, old) ELSE old

\* What query() can end with: the error of getConnection, the error of the
\* statement, or "" for a result.
QueryOutcomes == {"AcquireError", "QueryError", ""}

\* ---------------------------------------------------------- validate: values
\* JavaScript values: strings over a two-letter alphabet, numbers, booleans,
\* null.
Str(s)  == [t |-> "string",  s |-> s,    n |-> 0, b |-> FALSE]
Num(n)  == [t |-> "number",  s |-> << >>, n |-> n, b |-> FALSE]
Bool(b) == [t |-> "boolean", s |-> << >>, n |-> 0, b |-> b]
JsNull  == [t |-> "object",  s |-> << >>, n |-> 0, b |-> FALSE]

Digits == {"4"}
\* !v
Falsy(v) ==
  \/ v.t = "object"
  \/ v.t = "string" /\ v.s = << >>
  \/ v.t = "number" /\ v.n = 0
  \/ v.t = "boolean" /\ ~v.b
\* /^\d+$/.test(v): v is turned into a string first.
AllDigits(v) ==
  \/ v.t = "string" /\ v.s # << >> /\ \A i \in 1..Len(v.s) : v.s[i] \in Digits
  \/ v.t = "number" /\ v.n >= 0
\* f.length < v.length: null counts as 0, and a value without a length
\* (undefined) compares false.
LongerThan(v, limit) ==
  /\ v.t = "string"
  /\ (IF limit = NoLength THEN 0 ELSE limit) < Len(v.s)

Msg(kind, limit, type) == [kind |-> kind, limit |-> limit, type |-> type]

\* this.fields is a plain object, so this.fields[field] also finds what
\* Object.prototype holds: functions, which have a length (their arity) and
\* neither nullable nor js_type.
ObjectPrototype ==
  [constructor |-> [nullable |-> FALSE, length |-> 1, js_type |-> "undefined"],
   toString    |-> [nullable |-> FALSE, length |-> 0, js_type |-> "undefined"]]
\* this.fields[field] is truthy
Known(fs, field) == field \in DOMAIN fs \/ field \in DOMAIN ObjectPrototype
\* this.fields[field]
Lookup(fs, field) ==
  IF field \in DOMAIN fs THEN fs[field] ELSE ObjectPrototype[field]

\* validate: the messages one field of params adds to errors[field], in order.
FieldMessages(fs, field, v) ==
  IF ~Known(fs, field) THEN << Msg("Unknown field", 0, "") >>
  ELSE LET f == Lookup(fs, field) IN
    IF Falsy(v) /\ f.nullable THEN << >>
    ELSE
      (IF ~Falsy(v) /\ LongerThan(v, f.length)
         THEN << Msg("Maximum length", f.length, "") >> ELSE << >>)
      \o
      (IF f.js_type # (IF v.t = "object" THEN "object" ELSE v.t)
            /\ ~(f.js_type = "number" /\ f.length = 3 /\ v.t = "boolean")
            /\ ~(f.js_type = "number" /\ AllDigits(v))
         THEN << Msg("should be a", 0, f.js_type) >> ELSE << >>)

\* validate(params): null without params or without errors, else the errors
\* object, which holds a key only for a field that got a message.
validate(fs, arg) ==
  IF ~arg.given THEN [isNull |-> TRUE, errors |-> EmptyMap]
  ELSE LET params == arg.params
           bad == {k \in DOMAIN params : FieldMessages(fs, k, params[k]) # << >>}
       IN IF bad = {} THEN [isNull |-> TRUE, errors |-> EmptyMap]
          ELSE [isNull |-> FALSE,
                errors |-> [k \in bad |-> FieldMessages(fs, k, params[k])]]

\* What an entity's field map holds once its table's schema is in: one
\* descriptor per column, each with its JavaScript type set.
CompleteFields(t) ==
  [c \in DOMAIN TablesOf(Catalog)[t] |->
     [type |-> FieldOf(TablesOf(Catalog)[t][c]).type,
      nullable |-> FieldOf(TablesOf(Catalog)[t][c]).nullable,
      length |-> FieldOf(TablesOf(Catalog)[t][c]).length,
      index |-> FieldOf(TablesOf(Catalog)[t][c]).index,
      primary |-> FieldOf(TablesOf(Catalog)[t][c]).primary,
      unique |-> FieldOf(TablesOf(Catalog)[t][c]).unique,
      js_type |-> mapDataType(FieldOf(TablesOf(Catalog)[t][c]).type)]]

\* The arguments validate() is called with here.
SampleValues == {Str(<<"4">>), Str(<<"a", "a", "a">>), Num(4), JsNull}
SampleArgs ==
  {[given |-> FALSE, params |-> EmptyMap]} \cup
  {[given |-> TRUE, params |-> p] :
     p \in UNION {[ks -> SampleValues] : ks \in SUBSET {"id", "name"}}}

\* ---------------------------------------------------------- schema: actions
\* new Model(db): this.fields = {}, and this.db.loadSchema() issues its query.
\* this.db stands for the module's own functions bound to a pool: its
\* loadSchema() is loadSchema(pool), which runs query(pool, sql).
Construct(e) ==
  /\ e \notin constructed
  /\ constructed' = constructed \cup {e}
  /\ fields' = [fields EXCEPT ![e] = EmptyMap]
  /\ load' = [load EXCEPT ![e] = [status |-> "pending", reason |-> "", query |-> "sent"]]
  /\ catalogQueries' = catalogQueries + 1
  /\ UNCHANGED <<seen, report>>
  /\ UNCHANGED gvars
  /\ UNCHANGED evars

\* The metadata query of entity e settles, and the promise chain behind it
\* runs: loadSchema's callback, then the constructor's.
SchemaQuerySettles(e, err) ==
  /\ e \in constructed
  /\ load[e].status = "pending"
  /\ LET p == LoadSchema(err, Catalog) IN
       /\ load' = [load EXCEPT ![e] = [status |-> p.status, reason |-> p.reason,
                                       query |-> IF err = "" THEN "ok" ELSE err]]
       /\ fields' = [fields EXCEPT ![e] = FieldsAfterLoad(p, TableOf(e), fields[e])]
  /\ UNCHANGED <<constructed, catalogQueries, seen, report>>
  /\ UNCHANGED gvars
  /\ UNCHANGED evars

\* Mutant of Validate: validate() notes every unknown field it meets in
\* this.fields.
ValidateNoting(e, arg) ==
  /\ e \in constructed
  /\ report' = [report EXCEPT ![e] = validate(fields[e], arg)]
  /\ seen' = [seen EXCEPT ![e] = @ \cup {fields[e]}]
  /\ fields' = [fields EXCEPT ![e] =
                  [k \in DOMAIN fields[e] \cup DOMAIN arg.params |->
                     IF k \in DOMAIN fields[e] THEN fields[e][k]
                     ELSE FieldOf(Catalog[1])]]
  /\ UNCHANGED <<constructed, load, catalogQueries>>
  /\ UNCHANGED gvars
  /\ UNCHANGED evars

\* entity.validate(params)
Validate(e, arg) ==
  /\ e \in constructed
  /\ report' = [report EXCEPT ![e] = validate(fields[e], arg)]
  /\ seen' = [seen EXCEPT ![e] = @ \cup {fields[e]}]
  /\ UNCHANGED <<constructed, fields, load, catalogQueries>>
  /\ UNCHANGED gvars
  /\ UNCHANGED evars

\* ------------------------------------------------------ schema: specification
SchemaInit ==
  /\ constructed = {}
  /\ fields = [e \in Entities |-> EmptyMap]
  /\ load = [e \in Entities |-> [status |-> "none", reason |-> "", query |-> ""]]
  /\ catalogQueries = 0
  /\ seen = [e \in Entities |-> {}]
  /\ report = [e \in Entities |-> [isNull |-> TRUE, errors |-> EmptyMap]]

\* ------------------------------------------------ validate on its own: inputs
\* The field maps validate() is run against: none loaded, and each table's.
SampleFieldMaps == {EmptyMap, CompleteFields("user"), CompleteFields("post")}

\* Values of every type validate() tells apart, short and long.
PureValues ==
  {Str(<< >>), Str(<<"4">>), Str(<<"a", "a", "a">>), Str(<<"4", "4", "4", "4">>),
   Num(0), Num(4), Num(4444), Bool(TRUE), JsNull}
PureKeys == {"id", "name", "active", "created_at", "zip", "constructor"}
\* Records of one or two fields.
PureArgs ==
  {[given |-> TRUE, params |-> p] :
     p \in UNION {[ks -> PureValues] :
                    ks \in {x \in SUBSET PureKeys : Cardinality(x) \in {1, 2}}}}

\* Before the call: no argument yet, nothing returned yet.
NoArg == [given |-> FALSE, params |-> EmptyMap]
NullReport == [isNull |-> TRUE, errors |-> EmptyMap]

\* validate(params) against the field map at hand, once.
ApplyValidate(arg) ==
  /\ varg = NoArg
  /\ varg' = arg
  /\ vout' = validate(vfs, arg)
  /\ UNCHANGED <<vfs, qrows, pairsOut>>
  /\ UNCHANGED cvars
  /\ UNCHANGED gvars
  /\ UNCHANGED svars

PureInit ==
  /\ vfs = EmptyMap
  /\ varg = NoArg
  /\ vout = NullReport

\* -------------------------------------------------------------------- pairs
\* A result set: the column names in SELECT order and one tuple of values
\* per row.
ColumnLists == {<<"k">>, <<"k", "v">>, <<"k", "v", "w">>}
CellValues == {"x", "y"}
RECURSIVE Tuples(_)
Tuples(n) ==
  IF n = 0 THEN {<< >>}
  ELSE {Append(t, x) : t \in Tuples(n - 1), x \in CellValues}
RECURSIVE RowLists(_, _)
RowLists(width, n) ==
  IF n = 0 THEN {<< >>}
  ELSE RowLists(width, n - 1) \cup
       {Append(rs, r) : rs \in {l \in RowLists(width, n - 1) : Len(l) = n - 1},
                        r \in Tuples(width)}
ResultSets ==
  UNION {{[cols |-> cs, rows |-> rs] : rs \in RowLists(Len(cs), MaxRows)} :
           cs \in ColumnLists}

Pending == [status |-> "pending", value |-> EmptyMap, reason |-> ""]
Fulfilled(v) == [status |-> "fulfilled", value |-> v, reason |-> ""]
Rejected(why) == [status |-> "rejected", value |-> EmptyMap, reason |-> why]

\* rows.forEach(row => result[row[keys[0]]] = row[keys[1]]): a later row
\* overwrites an earlier one with the same key.
RECURSIVE Reduce(_, _)
Reduce(rows, result) ==
  IF rows = << >> THEN result
  ELSE Reduce(Tail(rows),
              [k \in DOMAIN result \cup {Head(rows)[1]} |->
                 IF k = Head(rows)[1] THEN Head(rows)[2] ELSE result[k]])

\* Mutant of pairsThen: a result set of another width is reduced over its
\* first columns instead of being refused.
pairsThenTruncating(rs) ==
  IF Len(rs.rows) = 0 THEN Fulfilled(EmptyMap)
  ELSE IF Len(rs.cols) < 2 THEN Fulfilled(EmptyMap)
  ELSE Fulfilled(Reduce(rs.rows, EmptyMap))

\* pairs: the callback given to query(...).then, run on the rows.
pairsThen(rs) ==
  IF Len(rs.rows) = 0 THEN Fulfilled(EmptyMap)
  ELSE IF Len(rs.cols) # 2 THEN Rejected("Invalid number of result columns")
  ELSE Fulfilled(Reduce(rs.rows, EmptyMap))

\* pairs: the promise query() returned has settled and the promise of
\* pairs() follows it, through the callback when query() resolved.
PairsSettles ==
  /\ pairsOut.status = "pending"
  /\ outcome["q"] # "pending"
  /\ pairsOut' = IF outcome["q"] = "rejected" THEN Rejected(reason["q"])
                 ELSE pairsThen(qrows)
  /\ UNCHANGED <<vfs, varg, vout, qrows>>
  /\ UNCHANGED cvars
  /\ UNCHANGED gvars
  /\ UNCHANGED svars

NoRows == [cols |-> <<"k", "v">>, rows |-> << >>]

PairsStart ==
  /\ qrows = NoRows
  /\ pairsOut = Pending

\* -------------------------------------------------------- entity operations
\* Records handed to save / update: an id, a name and a created_at, each
\* given or not; updated_at is never given by the caller.
NoId == 0
Unset == ""
Now == "now"
SampleIds == {1, 2}
SampleNames == {"John", "Jane"}
Data(id, name, created) ==
  [id |-> id, name |-> name, created_at |-> created, updated_at |-> Unset]
SaveArgs ==
  {Data(i, n, c) : i \in {NoId} \cup SampleIds, n \in SampleNames,
                   c \in {Unset, "mine"}}
UpdateArgs == {Data(i, n, Unset) : i \in {NoId} \cup SampleIds, n \in SampleNames}

\* A statement handed to this.db.query, or none.
NoStmt == [kind |-> "none", set |-> Data(NoId, Unset, Unset), where |-> NoId]
\* insert: INSERT INTO table (keys) VALUES (values)
insertStmt(data) == [kind |-> "INSERT", set |-> data, where |-> NoId]

\* Mutant of updateStmt: the statement is issued without looking at the id.
updateStmtUnchecked(data) ==
  [kind |-> "UPDATE", set |-> data, where |-> data.id]

\* update: UPDATE table SET ? WHERE id = ?, unless the record has no id.
updateStmt(data) ==
  IF data.id = NoId THEN NoStmt
  ELSE [kind |-> "UPDATE", set |-> data, where |-> data.id]
\* DeleteById: DELETE FROM table WHERE id = ?
deleteStmt(id) ==
  [kind |-> "DELETE", set |-> Data(NoId, Unset, Unset), where |-> id]

\* save: the record as save hands it on, given the entity's field map fs.
saveData(fs, data) ==
  IF data.id # NoId
    THEN [data EXCEPT
            !.created_at = IF "created_at" \in DOMAIN fs /\ @ # Unset
                             THEN Unset ELSE @,
            !.updated_at = IF "updated_at" \in DOMAIN fs THEN Now ELSE @]
    ELSE [data EXCEPT
            !.created_at = IF "created_at" \in DOMAIN fs THEN Now ELSE @]

\* Mutant of saveStmt: save inserts whether or not the record has an id.
saveStmtInserting(fs, data) == insertStmt(saveData(fs, data))

\* save: update for a record with an id, insert for one without.
saveStmt(fs, data) ==
  IF data.id # NoId THEN updateStmt(saveData(fs, data))
  ELSE insertStmt(saveData(fs, data))

\* The packet the driver hands to a statement's callback. With the driver's
\* default flags affectedRows counts the rows an UPDATE matched, changedRows
\* those whose values it changed; changedRows is read from an UPDATE's
\* message only, so it is 0 after a DELETE or an INSERT.
Packet(affected, changed, id) ==
  [affectedRows |-> affected, changedRows |-> changed, insertId |-> id]

\* The row an UPDATE leaves: the columns given are overwritten.
Overwrite(row, set) ==
  [name |-> IF set.name # Unset THEN set.name ELSE row.name,
   created_at |-> IF set.created_at # Unset THEN set.created_at ELSE row.created_at,
   updated_at |-> IF set.updated_at # Unset THEN set.updated_at ELSE row.updated_at]

\* The database runs a statement on table t whose counter is at n.
Execute(t, n, stmt) ==
  IF stmt.kind = "INSERT" THEN
    [tbl |-> [k \in DOMAIN t \cup {n + 1} |->
                IF k = n + 1
                  THEN [name |-> stmt.set.name,
                        created_at |-> stmt.set.created_at,
                        updated_at |-> stmt.set.updated_at]
                  ELSE t[k]],
     lastId |-> n + 1,
     result |-> Packet(1, 0, n + 1)]
  ELSE IF stmt.kind = "UPDATE" THEN
    IF stmt.where \in DOMAIN t
      THEN [tbl |-> [t EXCEPT ![stmt.where] = Overwrite(@, stmt.set)],
            lastId |-> n,
            result |-> Packet(1,
                              IF Overwrite(t[stmt.where], stmt.set) = t[stmt.where]
                                THEN 0 ELSE 1,
                              0)]
      ELSE [tbl |-> t, lastId |-> n, result |-> Packet(0, 0, 0)]
  ELSE
    IF stmt.where \in DOMAIN t
      THEN [tbl |-> [k \in DOMAIN t \ {stmt.where} |-> t[k]],
            lastId |-> n,
            result |-> Packet(1, 0, 0)]
      ELSE [tbl |-> t, lastId |-> n, result |-> Packet(0, 0, 0)]

\* The promise an entity operation returns.
Returned(v) == [status |-> "fulfilled", value |-> v, reason |-> ""]
Thrown(why) == [status |-> "rejected", value |-> 0, reason |-> why]

\* insert: .then(result => result.insertId)
insertThen(result) == result.insertId

\* Mutant of updateThen: the count of rows whose values changed.
updateThenChanged(result) == result.changedRows

\* update: .then(result => result.affectedRows)
updateThen(result) == result.affectedRows
\* DeleteById: .then(r => r.changedRows)
deleteThen(r) == r.changedRows
\* save: what follows update(data).
saveThen(data, changedRows) ==
  IF changedRows = 0 THEN Thrown("Error updating") ELSE Returned(data.id)

\* What the call o returns once its query came back with err or result.
Outcome(o, err, result) ==
  IF err # "" THEN Thrown(err)
  ELSE IF o.name = "save" /\ o.stmt.kind = "UPDATE"
         THEN saveThen(o.stmt.set, updateThen(result))
  ELSE IF o.name = "save" THEN Returned(insertThen(result))
  ELSE IF o.name = "update" THEN Returned(updateThen(result))
  ELSE Returned(deleteThen(result))

Idle == [name |-> "none", arg |-> Data(NoId, Unset, Unset), stmt |-> NoStmt]
CrudEntity == "User"
\* One settled call: its name and argument, the statement it issued (or
\* none), whether it called this.db.query, what the query came back with,
\* what the call returned, and the table before and after.
Entry(o, asked, err, ret, before, after) ==
  [name |-> o.name, arg |-> o.arg, stmt |-> o.stmt, asked |-> asked,
   err |-> err, ret |-> ret, before |-> before, after |-> after]

CanCall ==
  /\ CrudEntity \in constructed
  /\ op = Idle
  /\ Len(done) < MaxOps

\* save(data): the statement goes to this.db.query.
SaveCall(data) ==
  /\ CanCall
  /\ op' = [name |-> "save", arg |-> data,
            stmt |-> saveStmt(fields[CrudEntity], data)]
  /\ UNCHANGED <<tbl, lastId, done>>
  /\ UNCHANGED <<vfs, varg, vout, qrows, pairsOut>>
  /\ UNCHANGED gvars
  /\ UNCHANGED svars

\* update(data): rejected at once without an id, else the statement goes to
\* this.db.query.
UpdateCall(data) ==
  /\ CanCall
  /\ IF updateStmt(data) = NoStmt
       THEN /\ done' = Append(done,
                 Entry([name |-> "update", arg |-> data, stmt |-> NoStmt],
                       FALSE, "", Thrown("Missing id"), tbl, tbl))
            /\ UNCHANGED op
       ELSE /\ op' = [name |-> "update", arg |-> data, stmt |-> updateStmt(data)]
            /\ UNCHANGED done
  /\ UNCHANGED <<tbl, lastId>>
  /\ UNCHANGED <<vfs, varg, vout, qrows, pairsOut>>
  /\ UNCHANGED gvars
  /\ UNCHANGED svars

\* DeleteById(id): the statement goes to this.db.query.
DeleteCall(id) ==
  /\ CanCall
  /\ op' = [name |-> "DeleteById", arg |-> Data(id, Unset, Unset),
            stmt |-> deleteStmt(id)]
  /\ UNCHANGED <<tbl, lastId, done>>
  /\ UNCHANGED <<vfs, varg, vout, qrows, pairsOut>>
  /\ UNCHANGED gvars
  /\ UNCHANGED svars

\* this.db.query of the call under way comes back: with an error and the
\* table untouched, or with the packet of the statement the database ran.
CrudQuerySettles(err) ==
  /\ op # Idle
  /\ LET ex == IF err = "" THEN Execute(tbl, lastId, op.stmt)
               ELSE [tbl |-> tbl, lastId |-> lastId, result |-> Packet(0, 0, 0)]
     IN /\ tbl' = ex.tbl
        /\ lastId' = ex.lastId
        /\ done' = Append(done, Entry(op, TRUE, err, Outcome(op, err, ex.result),
                                      tbl, ex.tbl))
  /\ op' = Idle
  /\ UNCHANGED <<vfs, varg, vout, qrows, pairsOut>>
  /\ UNCHANGED gvars
  /\ UNCHANGED svars

CrudStart ==
  /\ tbl = EmptyMap
  /\ lastId = 0
  /\ op = Idle
  /\ done = << >>

Init == GatewayInit /\ SchemaInit /\ PureInit /\ PairsStart /\ CrudStart

SchemaNext ==
  \/ \E e \in Entities : Construct(e)
  \/ \E e \in Entities : \E err \in QueryOutcomes : SchemaQuerySettles(e, err)
  \/ \E e \in Entities : \E arg \in SampleArgs : Validate(e, arg)

SchemaSpec == Init /\ [][SchemaNext]_vars

\* ----------------------------------------- validate on its own: specification
ValidateInit ==
  /\ GatewayInit
  /\ SchemaInit
  /\ vfs \in SampleFieldMaps
  /\ varg = NoArg
  /\ vout = NullReport
  /\ PairsStart
  /\ CrudStart

ValidateNext == \E arg \in PureArgs : ApplyValidate(arg)

ValidateSpec == ValidateInit /\ [][ValidateNext]_vars

\* ------------------------------------------------------ pairs: specification
PairsInit ==
  /\ GatewayInit
  /\ SchemaInit
  /\ PureInit
  /\ qrows \in ResultSets
  /\ pairsOut = Pending
  /\ CrudStart

PairsNext ==
  \/ Call("q")
  \/ GetConnectionError("q")
  \/ GetConnection("q")
  \/ \E err \in {"", "QueryError"} : QueryCallback("q", err)
  \/ PairsSettles

PairsSpec == PairsInit /\ [][PairsNext]_vars

\* ------------------------------------------ entity operations: specification
CrudNext ==
  \/ Construct(CrudEntity)
  \/ \E err \in QueryOutcomes : SchemaQuerySettles(CrudEntity, err)
  \/ \E data \in SaveArgs : SaveCall(data)
  \/ \E data \in UpdateArgs : UpdateCall(data)
  \/ \E id \in SampleIds : DeleteCall(id)
  \/ \E err \in {"", "QueryError"} : CrudQuerySettles(err)

CrudSpec == Init /\ [][CrudNext]_vars

\* ------------------------------------------------------ gateway: specification
Next ==
  \/ \E c \in Calls : Call(c)
  \/ \E c \in Calls : GetConnectionError(c)
  \/ \E c \in Calls : GetConnection(c)
  \/ \E err \in {"", "QueryError"} : QueryCallback("q", err)
  \/ OnResult("u")
  \/ \E how \in {"fulfilled", "rejected"} : ConsumerSettles("u", how)
  \/ OnCallbackFulfilled("u")
  \/ OnCallbackRejected("u")
  \/ \E err \in SourceErrors : OnError("u", err)
  \/ OnEnd("u")
  \/ StreamRow("s")
  \/ SinkWrite("s")
  \/ \E err \in SourceErrors : StreamError("s", err)
  \/ StreamEnd("s")
  \/ OnFinish("s")

Spec == Init /\ [][Next]_vars

\* What call "u" (unbufferedQuery) can still do.
UStep ==
  \/ GetConnectionError("u")
  \/ GetConnection("u")
  \/ OnResult("u")
  \/ \E how \in {"fulfilled", "rejected"} : ConsumerSettles("u", how)
  \/ OnCallbackFulfilled("u")
  \/ OnCallbackRejected("u")
  \/ \E err \in SourceErrors : OnError("u", err)
  \/ OnEnd("u")

\* ------------------------------------------------------------ log helpers
Events(c, name) == {i \in 1..Len(log[c]) : log[c][i][1] = name}
Has(c, ev) == \E i \in 1..Len(log[c]) : log[c][i] = ev
\* The rows handed to the consumer of call c, in order.
RECURSIVE RowsOf(_)
RowsOf(l) ==
  IF l = << >> THEN << >>
  ELSE IF Head(l)[1] = "result" THEN <<Head(l)[2]>> \o RowsOf(Tail(l))
  ELSE RowsOf(Tail(l))
Delivered(c) == RowsOf(log[c])
\* No 'result' event of call c follows position i of its log.
NoRowAfter(c, i) == \A j \in Events(c, "result") : j < i

\* ----------------------------------------------------------------- claims
\* C1: in unbufferedQuery, between two deliveries of a row to the consumer
\* the promise the consumer returned for the earlier row has resolved: no
\* 'result' event reaches the consumer while a callback is outstanding.
C1_OneAtATime ==
  \A i, j \in Events("u", "result") :
    i < j => \E m \in (i + 1)..(j - 1) : log["u"][m] = <<"fulfilled", log["u"][i][2]>>

\* C1 witness: a second row was delivered, after the first one's callback resolved.
C1_Witness == Has("u", <<"result", 2>>) /\ Has("u", <<"fulfilled", 1>>)

\* C2 (as claimed): once the consumer has rejected on row k and the call can
\* take no further step, no row after k was delivered, the promise is rejected
\* with the consumer's error and the connection was released exactly once.
C2_ConsumerErrorReleases ==
  \A i \in Events("u", "rejected") :
    ~ENABLED UStep =>
      /\ NoRowAfter("u", i)
      /\ outcome["u"] = "rejected" /\ reason["u"] = "ConsumerError"
      /\ released["u"] = 1

\* C3 (as claimed): with no source error and a consumer that resolves every
\* time, a call that holds a connection and can take no further step has
\* delivered rows 1..N in order, released the connection and resolved.
C3_DeliversAllAndCompletes ==
  ( /\ pc["u"] \in {"open", "closed"} /\ conn["u"] # NoConn
    /\ Events("u", "rejected") = {}
    /\ \A e \in SourceErrors : Events("u", e) = {}
    /\ ~ENABLED UStep )
  => /\ Delivered("u") = [k \in 1..nrows["u"] |-> k]
     /\ pc["u"] = "closed"
     /\ released["u"] = 1
     /\ outcome["u"] = "resolved"

\* C4: in unbufferedQuery, once the source has signalled an error the promise
\* is rejected with that error, no row is delivered afterwards, and when the
\* call can take no further step the connection has been released once.
C4_SourceErrorRejects ==
  \A e \in SourceErrors : \A i \in Events("u", e) :
    /\ outcome["u"] = "rejected" /\ reason["u"] = e
    /\ NoRowAfter("u", i)
    /\ released["u"] <= 1
    /\ ~ENABLED UStep => released["u"] = 1

\* C4 witness: the source failed after a row was delivered, and the call ended.
C4_Witness ==
  /\ Has("u", <<"ConnectionError", 1>>)
  /\ src["u"] = "end"
  /\ released["u"] = 1

\* C5: a query() that acquired a connection has released it exactly once by
\* the time its promise settles, on success and on a query error, release
\* coming first; a query() whose acquisition failed rejects with that error
\* and neither executes nor releases anything.
C5_QueryReleasesOnce ==
  /\ released["q"] <= 1
  /\ pc["q"] = "open" => released["q"] = 0 /\ outcome["q"] = "pending"
  /\ outcome["q"] # "pending" =>
       IF conn["q"] # NoConn
         THEN /\ released["q"] = 1
              /\ reason["q"] \in {"", "QueryError"}
              /\ \A i \in Events("q", "release") :
                   \A j \in Events("q", "resolve") \cup Events("q", "reject") : i < j
         ELSE /\ released["q"] = 0
              /\ outcome["q"] = "rejected" /\ reason["q"] = "AcquireError"
              /\ log["q"] = << <<"call", 0>>, <<"reject", 0>> >>

\* C5 witness: a query failed after its connection was acquired, and released it.
C5_Witness ==
  /\ outcome["q"] = "rejected" /\ reason["q"] = "QueryError"
  /\ released["q"] = 1

\* C6: streamingQuery releases its connection at most once, only when the
\* sink has finished (the source has ended and the sink has taken every row
\* the source produced), and its promise resolves only after that release.
C6_ReleaseAfterFinish ==
  /\ released["s"] <= 1
  /\ released["s"] = 1 =>
       /\ src["s"] = "end" /\ buffered = 0 /\ written = emitted["s"]
       /\ Has("s", <<"finish", written>>)
  /\ pc["s"] = "open" => released["s"] = 0
  /\ outcome["s"] = "resolved" =>
       /\ released["s"] = 1
       /\ \A i \in Events("s", "release") : \A j \in Events("s", "resolve") : i < j
  /\ pc["s"] = "closed" /\ conn["s"] # NoConn => released["s"] = 1

\* C6 witness: every row of a full result set went through the sink, then the
\* connection was released and the call resolved.
C6_Witness ==
  /\ nrows["s"] = MaxRows /\ written = MaxRows
  /\ released["s"] = 1
  /\ outcome["s"] = "resolved"

\* C7: whatever the interleaving of schema loads and entity operations, an
\* entity's field map, now and whenever an operation read it, is the empty
\* map or the complete annotated descriptor map of its table.
C7_FieldsEmptyOrComplete ==
  \A e \in Entities : \A m \in seen[e] \cup {fields[e]} :
    m = EmptyMap \/ m = CompleteFields(TableOf(e))

\* C7 witness: operations of an entity read its field map, and its schema
\* load has run to the end on a metadata query that succeeded.
C7_Witness ==
  \E e \in Entities :
    /\ load[e].query = "ok"
    /\ seen[e] # {}
    /\ ~report[e].isNull

\* C8 (as claimed): once the metadata query has succeeded, loadSchema's
\* promise is resolved and the entity's field map is the complete annotated
\* descriptor map of its table.
C8_LoadResolvesPopulated ==
  \A e \in Entities :
    load[e].query = "ok" =>
      /\ load[e].status = "fulfilled"
      /\ fields[e] = CompleteFields(TableOf(e))

\* C9 (as claimed): the metadata catalog query is issued at most once, and
\* an installed field map is never replaced: the operations of an entity
\* read at most one non-empty map.
C9_CatalogQueriedOnce ==
  /\ catalogQueries <= 1
  /\ \A e \in Entities : Cardinality(seen[e] \ {EmptyMap}) <= 1

\* C9 (amended): the metadata catalog query is issued once for each entity
\* constructed, and no entity operation changes any entity's field map.
C9_CatalogQueriedPerEntity ==
  /\ [](catalogQueries = Cardinality(constructed))
  /\ [][(\E e \in Entities : \E arg \in SampleArgs : Validate(e, arg))
          => fields' = fields]_vars

\* C9 witness: two entities exist, each has run an operation, and two
\* metadata queries were issued.
C9_Witness ==
  /\ constructed = Entities
  /\ catalogQueries = 2
  /\ \A e \in Entities : seen[e] # {}

\* C10: when the metadata query fails (at acquisition or at the statement),
\* the schema load is rejected with that error and the entity's field map is
\* the empty map then and whenever an operation reads it.
C10_FailedLoadInstallsNothing ==
  \A e \in Entities :
    load[e].query \in {"AcquireError", "QueryError"} =>
      /\ load[e].status = "rejected"
      /\ load[e].reason = load[e].query
      /\ fields[e] = EmptyMap
      /\ seen[e] \subseteq {EmptyMap}

\* C10 witness: a metadata query failed and the entity was used all the same.
C10_Witness ==
  \E e \in Entities :
    /\ load[e].query = "QueryError"
    /\ seen[e] # {}
    /\ ~report[e].isNull

\* ---------------------------------------------------------------- validate
\* validate() has been applied to a record.
Validated == varg.given

\* String(v).length of a string or a non-negative number.
RECURSIVE DigitsOf(_)
DigitsOf(n) == IF n < 10 THEN 1 ELSE 1 + DigitsOf(n \div 10)
TextLen(v) == IF v.t = "string" THEN Len(v.s) ELSE DigitsOf(v.n)

\* C15 (as claimed): every field of the record whose name is absent from the
\* field map is in validate's report with the 'Unknown field' message and no
\* other message, whatever the other fields hold.
C15_UnknownFieldReported ==
  Validated =>
    \A k \in DOMAIN varg.params :
      k \notin DOMAIN vfs =>
        /\ ~vout.isNull
        /\ k \in DOMAIN vout.errors
        /\ vout.errors[k] = << Msg("Unknown field", 0, "") >>

\* The field descriptor's type accepts the value.
WellTyped(f, v) == f.js_type = v.t /\ v # JsNull
\* The field has no length limit, or the value's text fits it.
WithinLength(f, v) == f.length = NoLength \/ TextLen(v) <= f.length
\* Every field of the record is in the field map, well-typed, within length
\* and non-null.
AllValid(fs, params) ==
  \A k \in DOMAIN params :
    /\ k \in DOMAIN fs
    /\ WellTyped(fs[k], params[k])
    /\ WithinLength(fs[k], params[k])

RECURSIVE LastFor(_, _)
LastFor(rows, k) ==
  IF rows[Len(rows)][1] = k THEN rows[Len(rows)][2]
  ELSE LastFor(SubSeq(rows, 1, Len(rows) - 1), k)

\* C19: once query() has resolved and the promise of pairs() has settled: a
\* result set with rows of other than two columns rejects and hands out no
\* mapping; a two-column one fulfils with the mapping from each row's first
\* column to its second (the last row with a key decides); the connection
\* has been released, once.
C19_PairsTwoColumnsOrReject ==
  (outcome["q"] = "resolved" /\ pairsOut.status # "pending") =>
    /\ (Len(qrows.rows) > 0 /\ Len(qrows.cols) # 2) =>
         /\ pairsOut.status = "rejected"
         /\ pairsOut.reason = "Invalid number of result columns"
         /\ pairsOut.value = EmptyMap
    /\ Len(qrows.cols) = 2 =>
         /\ pairsOut.status = "fulfilled"
         /\ DOMAIN pairsOut.value = {qrows.rows[i][1] : i \in 1..Len(qrows.rows)}
         /\ \A k \in DOMAIN pairsOut.value :
              pairsOut.value[k] = LastFor(qrows.rows, k)
    /\ released["q"] = 1
    /\ conn["q"] \in pool

\* C19 witness: a three-column result set was refused after its connection
\* was released.
C19_Witness ==
  /\ outcome["q"] = "resolved"
  /\ Len(qrows.cols) = 3
  /\ Len(qrows.rows) = 2
  /\ pairsOut.status = "rejected"
  /\ released["q"] = 1

\* ------------------------------------------------------ concurrent calls
\* The resolve()/reject() calls of call c, by position in its log.
SettleCalls(c) == Events(c, "resolve") \cup Events(c, "reject")
\* Call c holds its connection: acquired and not released.
Holds(c) == conn[c] # NoConn /\ released[c] = 0

\* C20: whatever the interleaving of the three calls and the order of the
\* source's events, a call releases at most once and only its own
\* connection (a connection a call holds is never back in the pool, and no
\* two calls hold the same one), and the first resolve()/reject() of a call
\* is its outcome for good: a later one changes nothing.
C20_OwnReleaseOnceFirstSettleFinal ==
  \A c \in Calls :
    /\ released[c] <= 1
    /\ released[c] = Cardinality(Events(c, "release"))
    /\ released[c] = 1 => conn[c] # NoConn
    /\ Holds(c) => conn[c] \notin pool
    /\ \A d \in Calls \ {c} : Holds(c) /\ Holds(d) => conn[c] # conn[d]
    /\ IF SettleCalls(c) = {} THEN outcome[c] = "pending"
       ELSE LET first == CHOOSE i \in SettleCalls(c) :
                           \A j \in SettleCalls(c) : i <= j
            IN outcome[c] = (IF log[c][first][1] = "reject" THEN "rejected"
                             ELSE "resolved")

\* C20 witness: the source of the unbuffered call failed and then ended, so
\* resolve() followed reject(), while the other two calls were under way
\* and one of them had released.
C20_Witness ==
  /\ \E i \in Events("u", "reject") : \E j \in Events("u", "resolve") : i < j
  /\ outcome["u"] = "rejected"
  /\ released["u"] = 1
  /\ released["q"] = 1
  /\ pc["s"] = "open"

\* -------------------------------------------------------- entity operations
\* The settled calls named n.
Calls_(n) == {i \in 1..Len(done) : done[i].name = n}
\* The entity's table has created_at and updated_at columns.
Timestamped == {"created_at", "updated_at"} \subseteq DOMAIN CompleteFields(TableOf(CrudEntity))

\* C11 (as claimed): for an entity whose table has created_at and
\* updated_at, every UPDATE that save issued carries a fresh updated_at and
\* no created_at, whether or not the schema load had completed.
C11_SaveStampsUpdates ==
  Timestamped =>
    \A i \in Calls_("save") :
      done[i].stmt.kind = "UPDATE" =>
        /\ done[i].stmt.set.updated_at = Now
        /\ done[i].stmt.set.created_at = Unset

\* C12: a save of a record without an id issues one INSERT and, the query
\* succeeding, returns the id of the row it added; a save of a record with
\* an id issues one UPDATE scoped to that id, never an INSERT, and, the
\* query succeeding on a stored row, returns that id, also when the row
\* already holds the record's values.
C12_SaveInsertsThenUpdates ==
  \A i \in Calls_("save") :
    LET d == done[i] IN
    /\ d.asked
    /\ IF d.arg.id = NoId
         THEN /\ d.stmt.kind = "INSERT"
              /\ d.err = "" =>
                   /\ d.ret.status = "fulfilled"
                   /\ d.ret.value \notin DOMAIN d.before
                   /\ DOMAIN d.after = DOMAIN d.before \cup {d.ret.value}
                   /\ d.after[d.ret.value].name = d.arg.name
         ELSE /\ d.stmt.kind = "UPDATE"
              /\ d.stmt.where = d.arg.id
              /\ DOMAIN d.after = DOMAIN d.before
              /\ (d.err = "" /\ d.arg.id \in DOMAIN d.before) =>
                   /\ d.ret.status = "fulfilled"
                   /\ d.ret.value = d.arg.id

\* C12 witness: save added a row and returned its id; saved again under that
\* id with the same values, it updated and returned the same id.
C12_Witness ==
  /\ Len(done) = 2
  /\ done[1].name = "save" /\ done[1].arg.id = NoId
  /\ done[1].ret.status = "fulfilled"
  /\ done[2].name = "save" /\ done[2].arg.id = done[1].ret.value
  /\ done[2].arg.name = done[1].arg.name
  /\ done[2].after = done[2].before
  /\ done[2].stmt.kind = "UPDATE"
  /\ done[2].ret = Returned(done[1].ret.value)

\* C13 (as claimed): update returns the number of rows whose stored values
\* changed, so 0 for a record whose row already holds its values.
C13_UpdateReturnsChanged ==
  \A i \in Calls_("update") :
    (done[i].asked /\ done[i].err = "") =>
      done[i].ret = Returned(IF done[i].after = done[i].before THEN 0 ELSE 1)

\* C13 (amended): update returns the number of rows its id matched: 1 for a
\* stored row, changed or not, and 0 when no row has the id.
C13_UpdateReturnsMatched ==
  \A i \in Calls_("update") :
    (done[i].asked /\ done[i].err = "") =>
      done[i].ret = Returned(IF done[i].arg.id \in DOMAIN done[i].before
                               THEN 1 ELSE 0)

\* C13 witness: update of a stored row with the values it already holds
\* returned 1.
C13_Witness ==
  \E i \in Calls_("update") :
    /\ done[i].err = ""
    /\ done[i].arg.id \in DOMAIN done[i].before
    /\ done[i].after = done[i].before
    /\ done[i].ret = Returned(1)

\* C14: update of a record without an id rejects with 'Missing id' and does
\* nothing else: this.db.query is not called, so no connection is acquired
\* and no statement issued, and the table is as before.
C14_UpdateWithoutIdRejects ==
  \A i \in Calls_("update") :
    done[i].arg.id = NoId =>
      /\ done[i].ret = Thrown("Missing id")
      /\ ~done[i].asked
      /\ done[i].stmt = NoStmt
      /\ done[i].after = done[i].before

\* C14 witness: update without an id was rejected with a row in the table.
C14_Witness ==
  \E i \in Calls_("update") :
    /\ done[i].arg.id = NoId
    /\ done[i].ret.reason = "Missing id"
    /\ done[i].before # EmptyMap

\* C18 (as claimed): DeleteById issues a DELETE scoped to the id and returns
\* 1 when a row with that id was stored and removed, 0 when none was.
C18_DeleteReturnsAffected ==
  \A i \in Calls_("DeleteById") :
    /\ done[i].stmt.kind = "DELETE"
    /\ done[i].stmt.where = done[i].arg.id
    /\ done[i].err = "" =>
         done[i].ret = Returned(IF done[i].arg.id \in DOMAIN done[i].before
                                  THEN 1 ELSE 0)

====
